---- MODULE Spec2Model ----
(***************************************************************************)
(* Model of the IPv6 <-> Wirepas mesh bridge, ipv6_service/ipv6_service.py *)
(*                                                                         *)
(* Three kinds of threads are modelled at the granularity at which they   *)
(* can observe each other:                                                *)
(*   - the mesh SDK worker (busThread): lifecycle callbacks and           *)
(*     on_data_received, one callback at a time;                          *)
(*   - the main thread: the TUN reader loop of IPV6Transport.start;       *)
(*   - one listener thread per IPV6Sink object (IPV6Sink.run).            *)
(* The operating system is the set of installed routes, addresses and     *)
(* proxy-NDP entries; a command can also fail for reasons outside the     *)
(* program (faults), which _execute_cmd turns into RuntimeError.          *)
(***************************************************************************)
EXTENDS Integers, Sequences, FiniteSets, TLC

(* ------------------------------ bounds -------------------------------- *)
\* IPV6Sink objects alive at the same time (table entries, orphans)
MaxObjs == 1

(* ------------------------- program constants -------------------------- *)
WIREPAS_IPV6_EP == 66
\* 32-bit mesh addresses are pairs <<high 16 bits, low 16 bits>>
U32(hi, lo) == <<hi, lo>>
BROADCAST == U32(65535, 65535)
UDP_NEXT_HEADER == 17
ICMPV6_NEXT_HEADER == 58
QOS == 1

(* ------------------------------ inputs -------------------------------- *)
SinkIds == {"sink0", "sink1"}
\* node_address reported by each sink's read_config (distinct per sink)
NodeAddressOf(name) == IF name = "sink0" THEN U32(2571, 3085) ELSE U32(2571, 3086)
\* a mesh address no sink has
ForeignSinkAdd == U32(258, 772)
MeshNodes == {U32(0, 1)}
Nodes == MeshNodes \cup {BROADCAST}
ObjIds == 1..(MaxObjs + 1)
NoObj == 0

Min(a, b) == IF a < b THEN a ELSE b
Max(a, b) == IF a < b THEN b ELSE a

(* ------------------------------ bytes --------------------------------- *)
\* python slice s[i:j] of a byte sequence
Slice(s, i, j) == SubSeq(s, i + 1, Min(j, Len(s)))
\* int.to_bytes(4, byteorder='big')
to_bytes4(x) == << x[1] \div 256, x[1] % 256, x[2] \div 256, x[2] % 256 >>
\* struct.unpack(">I", b)[0]
unpack_I(b) == U32(b[1] * 256 + b[2], b[3] * 256 + b[4])
Zeros(n) == [i \in 1..n |-> 0]

(* ------------------------------ Ipv6Add ------------------------------- *)
\* a value or the exception raised instead of it
Raised(e) == [exc |-> e, add |-> << >>, prefix_len |-> 0]
Unbound == Raised("unbound")

Ipv6Add(add_bytes, prefix_len) ==
  IF Len(add_bytes) * 8 < prefix_len
  THEN Raised("ValueError")
  ELSE [exc |-> "", add |-> add_bytes, prefix_len |-> prefix_len]

wirepas_node_add(a) == unpack_I(Slice(a.add, 12, 16))
wirepas_sink_add(a) == unpack_I(Slice(a.add, 8, 12))

start_with_prefix(a, prefix_bytes) ==
  \A i \in 1..Len(prefix_bytes) : prefix_bytes[i] = a.add[i]

\* An address literal is kept at the granularity from_srting looks at it:
\* the parts between "::" separators, each part the groups between ":"
\* (a group is its hex value, EmptyGroup for the empty string), and the
\* number after "/" (NoLen when there is no "/").
EmptyGroup == -1
NoLen == -1

RECURSIVE _append_groups(_)
_append_groups(grps) ==
  IF grps = << >> THEN << >>
  ELSE (IF grps[1] = EmptyGroup THEN <<0, 0>>
        ELSE << grps[1] \div 256, grps[1] % 256 >>)
       \o _append_groups(Tail(grps))

from_srting(lit) ==
  LET prefix_len == IF lit.plen = NoLen THEN 128 ELSE lit.plen
  IN IF Len(lit.parts) # 2
     THEN Raised("ValueError")   \* part1, part2 = add_str.split("::")
     ELSE LET groups1 == lit.parts[1]
              groups2 == lit.parts[2]
              zero_group_count == 8 - Len(groups1) - Len(groups2)
          IN Ipv6Add(_append_groups(groups1)
                       \o Zeros(2 * Max(0, zero_group_count))
                       \o _append_groups(groups2),
                     prefix_len)

\* the discovered network prefix: rdisc6 printed "2001:db8:1:2::/64"
nw_prefix ==
  from_srting([parts |-> << <<8193, 3512, 1, 2>>, <<EmptyGroup>> >>, plen |-> 64])

\* add_bytes[8:12] = sink_add.to_bytes(4, byteorder='big')
SetSlice(add_bytes, i, j, new) ==
  Slice(add_bytes, 0, i) \o new \o Slice(add_bytes, j, Len(add_bytes))

\* a slip: sink and node fields written the other way round
from_prefix_sink_add_and_sink_node_Swapped(prefix, sink_add, node_add) ==
  IF prefix.prefix_len # 64 THEN Raised("RuntimeError")
  ELSE Ipv6Add(SetSlice(SetSlice(prefix.add, 8, 12, to_bytes4(node_add)),
                        12, 16, to_bytes4(sink_add)),
               128)

from_prefix_sink_add_and_sink_node(prefix, sink_add, node_add) ==
  IF prefix.prefix_len # 64 THEN Raised("RuntimeError")
  ELSE Ipv6Add(SetSlice(SetSlice(prefix.add, 8, 12, to_bytes4(sink_add)),
                        12, 16, to_bytes4(node_add)),
               128)

from_prefix_and_sink_add(prefix, sink_add) ==
  IF prefix.prefix_len # 64 THEN Raised("RuntimeError")
  ELSE Ipv6Add(SetSlice(prefix.add, 8, 12, to_bytes4(sink_add)),
               prefix.prefix_len + 32)

\* bytes, or the exception raised instead of them
Bytes(b) == [exc |-> "", bytes |-> b]
RaisedBytes(e) == [exc |-> e, bytes |-> << >>]

\* Ipv6Add.prefix
prefix(a) ==
  IF a.prefix_len % 8 # 0 THEN RaisedBytes("ValueError")
  ELSE Bytes(Slice(a.add, 0, a.prefix_len \div 8))

\* the groups of bytes.hex(":", 2): two bytes a group
RECURSIVE hex_groups(_)
hex_groups(b) ==
  IF Len(b) = 0 THEN << >>
  ELSE IF Len(b) = 1 THEN << b[1] >>
  ELSE << b[1] * 256 + b[2] >> \o hex_groups(SubSeq(b, 3, Len(b)))

\* Ipv6Add.__str__: every group printed, never a "::"
__str__(a) ==
  [parts |-> << hex_groups(a.add) >>,
   plen |-> IF a.prefix_len < 128 THEN a.prefix_len ELSE NoLen]

(* -------------------------- IPV6NetworkConfig -------------------------- *)
VERSION == 0
\* Python's None, where an Ipv6Add may stand
None == [exc |-> "None", add |-> << >>, prefix_len |-> 0]

IPV6NetworkConfig(nonce, prefix_, off_mesh) ==
  [exc |-> "", nonce |-> nonce, nw_prefix |-> prefix_, off_mesh_service |-> off_mesh]
RaisedConfig(e) ==
  [exc |-> e, nonce |-> 0, nw_prefix |-> None, off_mesh_service |-> None]

\* the loop of from_bytes over the entries, index counting from 0
RECURSIVE _from_bytes_entries(_, _, _, _, _)
_from_bytes_entries(bytes, index, nonce, nw, oms) ==
  IF index >= Len(bytes) THEN IPV6NetworkConfig(nonce, nw, oms)
  ELSE IF bytes[index + 1] \div 128 = 0
  THEN IF index + 9 > Len(bytes) THEN RaisedConfig("ValueError")
       ELSE _from_bytes_entries(
              bytes, index + 9, nonce,
              IF nw # None THEN nw ELSE Ipv6Add(Slice(bytes, index + 1, index + 9), 64),
              oms)
  ELSE IF index + 17 > Len(bytes) THEN RaisedConfig("ValueError")
       ELSE _from_bytes_entries(
              bytes, index + 17, nonce, nw,
              IF oms # None THEN oms
              ELSE Ipv6Add(Slice(bytes, index + 1, index + 17), 128))

from_bytes(bytes) ==
  IF Len(bytes) = 0 THEN RaisedConfig("IndexError")   \* bytes[0]
  ELSE IF bytes[1] \div 16 # VERSION THEN RaisedConfig("ValueError")
  ELSE _from_bytes_entries(bytes, 1, bytes[1] % 16, None, None)

to_bytes(c) ==
  LET header == VERSION * 16 + c.nonce
      p == IF c.nw_prefix = None THEN Bytes(<< >>) ELSE prefix(c.nw_prefix)
      o == IF c.off_mesh_service = None THEN << >>
           ELSE <<128>> \o c.off_mesh_service.add
  IN IF p.exc # "" THEN RaisedBytes(p.exc)
     ELSE Bytes(<<header>>
                \o (IF c.nw_prefix = None THEN << >> ELSE <<0>> \o p.bytes)
                \o o)

\* a slip: the nonce is left as it was
increment_nonce_Stuck(c) == [c EXCEPT !.nonce = c.nonce % 16]

increment_nonce(c) == [c EXCEPT !.nonce = (c.nonce + 1) % 16]

(* ------------------- the sink's application config -------------------- *)
APP_CONFIG_TLV_TYPE_PREFIX == 66
\* WirepasTLVAppConfig: the entries of the envelope, TLV type -> value
NoEntries == [t \in {} |-> << >>]
\* app_config.value, and a blob that is no TLV envelope
Envelope(entries) == [tlv |-> TRUE, entries |-> entries]
NotTlv == [tlv |-> FALSE, entries |-> NoEntries]
\* WirepasTLVAppConfig.from_value
from_value(value) ==
  IF value.tlv THEN [exc |-> "", entries |-> value.entries]
  ELSE [exc |-> "ValueError", entries |-> NoEntries]
\* WirepasTLVAppConfig.add_entry
add_entry(entries, type, value) ==
  [t \in DOMAIN entries \cup {type} |-> IF t = type THEN value ELSE entries[t]]

\* what read_config returns and write_config takes; has_data: the dict has
\* the key "app_config_data"
SinkConfig(has_data, data, seq, diag) ==
  [has_data |-> has_data, app_config_data |-> data, app_config_seq |-> seq,
   app_config_diag |-> diag]
NoWrite == [exc |-> "none", new_config |-> SinkConfig(FALSE, NotTlv, 0, 0)]
Written(c) == [exc |-> "", new_config |-> c]
RaisedWrite(e) == [exc |-> e, new_config |-> SinkConfig(FALSE, NotTlv, 0, 0)]

\* a slip: the off-mesh service of the record is set to the bridge's even
\* when the bridge has none
_update_ipv6_config_to_app_config_Overwrite(sink_config, off_mesh_service) ==
  LET app_config ==
        IF ~sink_config.has_data THEN NoEntries
        ELSE from_value(sink_config.app_config_data).entries
      old ==
        IF APP_CONFIG_TLV_TYPE_PREFIX \notin DOMAIN app_config
        THEN RaisedConfig("KeyError")
        ELSE from_bytes(app_config[APP_CONFIG_TLV_TYPE_PREFIX])
      ipv6_config ==
        IF old.exc = ""
        THEN increment_nonce(
               [old EXCEPT !.nw_prefix = nw_prefix,
                           !.off_mesh_service = off_mesh_service])
        ELSE IF old.exc \in {"KeyError", "ValueError"}
        THEN IPV6NetworkConfig(0, nw_prefix, off_mesh_service)
        ELSE old
      value == to_bytes(ipv6_config)
  IN IF ipv6_config.exc # "" THEN RaisedWrite(ipv6_config.exc)
     ELSE IF value.exc # "" THEN RaisedWrite(value.exc)
     ELSE Written(SinkConfig(
            TRUE,
            Envelope(add_entry(app_config, APP_CONFIG_TLV_TYPE_PREFIX, value.bytes)),
            0, sink_config.app_config_diag))

\* a slip: the envelope is built anew, the other entries are lost
_update_ipv6_config_to_app_config_Erased(sink_config, off_mesh_service) ==
  Written(SinkConfig(
    TRUE,
    Envelope(add_entry(NoEntries, APP_CONFIG_TLV_TYPE_PREFIX,
                       to_bytes(IPV6NetworkConfig(0, nw_prefix, off_mesh_service)).bytes)),
    0, sink_config.app_config_diag))

\* IPV6Sink._update_ipv6_config_to_app_config: the new_config handed to
\* write_config, or the exception that leaves the method
_update_ipv6_config_to_app_config(sink_config, off_mesh_service) ==
  LET app_config ==
        IF ~sink_config.has_data THEN NoEntries         \* KeyError
        ELSE from_value(sink_config.app_config_data).entries
      old ==
        IF APP_CONFIG_TLV_TYPE_PREFIX \notin DOMAIN app_config
        THEN RaisedConfig("KeyError")
        ELSE from_bytes(app_config[APP_CONFIG_TLV_TYPE_PREFIX])
      ipv6_config ==
        IF old.exc = ""
        THEN increment_nonce(
               [old EXCEPT !.nw_prefix = nw_prefix,
                           !.off_mesh_service =
                              IF off_mesh_service # None THEN off_mesh_service ELSE @])
        ELSE IF old.exc \in {"KeyError", "ValueError"}
        THEN IPV6NetworkConfig(0, nw_prefix, off_mesh_service)
        ELSE old
      value == to_bytes(ipv6_config)
  IN IF ipv6_config.exc # "" THEN RaisedWrite(ipv6_config.exc)
     ELSE IF value.exc # "" THEN RaisedWrite(value.exc)
     ELSE Written(SinkConfig(
            TRUE,
            Envelope(add_entry(app_config, APP_CONFIG_TLV_TYPE_PREFIX, value.bytes)),
            0, sink_config.app_config_diag))

(* ------------------------------ state --------------------------------- *)
VARIABLES
  sink_dic,   \* IPV6Transport.sink_dic: sink id -> IPV6Sink object (NoObj: no key)
  objs,       \* the IPV6Sink objects: fields, listener position, wakeup socket
  routes,     \* OS: routes installed on the TUN (Ipv6Add values)
  addrs,      \* OS: addresses assigned to the TUN
  proxies,    \* OS: proxy-NDP entries on the external interface
  tun_out,    \* payloads the running callback has written to the TUN, in order
  failed,     \* a command or call of the running callback has failed
  wpc,        \* SDK worker: position inside the running callback
  wev,        \* SDK worker: the callback being run (or last run) and its arguments
  wobj,       \* SDK worker: the local variable ipv6_sink
  mpc,        \* main thread: position in the loop of IPV6Transport.start
  packet,     \* main thread: the packet read last
  dst_addr,   \* main thread: the local variable dst_addr (Unbound before first bind)
  it_used,    \* main thread: dict size the values() iterator saw when created
  it_seen,    \* main thread: keys the iterator has passed
  sent,       \* main thread: the send_data issued for the packet read last
  history,    \* per sink: "skipped" (the last attach found the stack not started),
              \* "tainted" (a command for it failed, or it was attached while
              \* attached), else "fresh"
  fn,         \* a call of the codecs on its own: operation, input, result
  sink_cfg,   \* per sink: the application config the sink holds
  cfg_in,     \* the sink_config the attach in progress (or the last one) read
  cfg_out,    \* what that attach handed to write_config (NoWrite: nothing)
  off_mesh,   \* IPV6Transport.off_mesh_service
  spc,        \* main thread: position in main() and IPV6Transport.__init__
  slog,       \* the steps startup has executed, in order
  attempts,   \* _get_external_prefix: the local variable attempts
  exit_code,  \* the exit code of the process (-1 while it runs)
  arg,        \* the --off_mesh_service argument after str2none
  tun,        \* OS: the device tun_wirepas exists
  todo,       \* sinks of get_sinks() not yet attached by __init__
  delivered,  \* the accepted frames on_data_received was called with, in order
  written     \* the packets os.write has put on the TUN since startup, in order

os_vars == <<routes, addrs, proxies>>
worker_vars == <<wpc, wev, wobj>>
main_vars == <<mpc, packet, dst_addr, it_used, it_seen, sent>>
hist_vars == <<history>>
codec_vars == <<fn>>
config_vars == <<sink_cfg, cfg_in, cfg_out, off_mesh>>
startup_vars == <<spc, slog, attempts, exit_code, arg, tun, todo>>
inbound_vars == <<delivered, written>>
vars == <<sink_dic, objs, os_vars, tun_out, failed, worker_vars, main_vars, hist_vars,
          codec_vars, config_vars, startup_vars, inbound_vars>>

\* a slot holding no object
FreeObj ==
  [used |-> FALSE, name |-> "", wp_address |-> U32(0, 0), neigh_proxy |-> {},
   running |-> FALSE, lpc |-> "none", lnode |-> U32(0, 0), wake |-> 0,
   net_adds |-> [n \in Nodes |-> 0]]

NoEvent ==
  [kind |-> "none", name |-> "", started |-> FALSE, src |-> U32(0, 0),
   src_ep |-> 0, dst_ep |-> 0, data |-> << >>]
NoSend ==
  [obj_name |-> "", dst_node |-> U32(0, 0), src_ep |-> 0, dst_ep |-> 0, qos |-> 0,
   data |-> << >>]

NoCall == [op |-> "none", inp |-> << >>, mid |-> << >>, out |-> << >>]

\* a sink that never had an application config
EmptyConfig == SinkConfig(FALSE, NotTlv, 0, 0)

CoreInit ==
  /\ sink_dic = [s \in SinkIds |-> NoObj]
  /\ objs = [o \in ObjIds |-> FreeObj]
  /\ proxies = {}
  /\ delivered = << >> /\ written = << >>
  /\ tun_out = << >>
  /\ failed = FALSE
  /\ wpc = "idle" /\ wev = NoEvent /\ wobj = NoObj
  /\ mpc = "read" /\ packet = << >> /\ dst_addr = Unbound
  /\ it_used = 0 /\ it_seen = {} /\ sent = NoSend
  /\ history = [s \in SinkIds |-> "fresh"]
  /\ fn = NoCall

\* no --off_mesh_service argument (an empty string is turned into None)
NoLiteral == [parts |-> << >>, plen |-> NoLen]

\* the sink's stored configs are left alone
ConfigIdle ==
  /\ sink_cfg = [s \in SinkIds |-> EmptyConfig]
  /\ cfg_in = EmptyConfig /\ cfg_out = NoWrite /\ off_mesh = None

\* startup is over: the event loop runs;
\* the device was created anew: nothing is installed on it
StartupDone ==
  /\ spc = "running" /\ slog = << >> /\ attempts = 0 /\ exit_code = -1
  /\ arg = NoLiteral /\ tun = TRUE /\ todo = {}
  /\ routes = {} /\ addrs = {}

Init == CoreInit /\ ConfigIdle /\ StartupDone

(* ------------------------- derived addresses -------------------------- *)
ipv6_interface_address(wp) ==
  from_prefix_sink_add_and_sink_node(nw_prefix, wp, U32(0, 0))
ipv6_sink_prefix(wp) == from_prefix_and_sink_add(nw_prefix, wp)
NodeAddress(wp, node) == from_prefix_sink_add_and_sink_node(nw_prefix, wp, node)

\* the outcomes _execute_cmd can have beyond what the OS state decides
FaultChoices == BOOLEAN

InDic(name) == sink_dic[name] # NoObj
DicKeys(d) == {s \in SinkIds : d[s] # NoObj}
DicValues(d) == {d[s] : s \in DicKeys(d)}

\* objects nothing refers to any more and whose thread is not running
Reclaim(o2, d2, cur) ==
  [o \in ObjIds |->
     IF /\ o2[o].used /\ o \notin DicValues(d2) /\ o # cur
        /\ o2[o].lpc \in {"none", "exited", "dead"}
     THEN FreeObj ELSE o2[o]]
\* MaxObjs objects for first attaches; the slot beyond them is taken only
\* by the object that replaces the one a sink already has in the table
FreeSlots == {o \in 1..MaxObjs : ~objs[o].used}
SlotsFor(name) ==
  IF InDic(name) THEN {o \in ObjIds : ~objs[o].used} ELSE FreeSlots

Taint(name) == [history EXCEPT ![name] = "tainted"]
tainted == {s \in SinkIds : history[s] = "tainted"}
skipped == {s \in SinkIds : history[s] = "skipped"}


(* ---------------------- SDK worker: lifecycle ------------------------- *)
AttachKinds == {"sink_connected", "stack_started"}
DetachKinds == {"sink_disconnected", "stack_stopped"}

Event(kind, name, started) ==
  [kind |-> kind, name |-> name, started |-> started, src |-> U32(0, 0),
   src_ep |-> 0, dst_ep |-> 0, data |-> << >>]

\* the callback is over: it returns ("return"), or an exception leaves it
\* for the SDK's event loop ("raise")
WorkerEnd(how, o2, d2) ==
  /\ wpc' = how
  /\ wobj' = NoObj
  /\ objs' = Reclaim(o2, d2, NoObj)
  /\ sink_dic' = d2
WorkerIdle(o2, d2) == WorkerEnd("return", o2, d2)

\* the event loop takes the next event
WorkerDone ==
  /\ wpc \in {"return", "raise"}
  /\ wpc' = "idle"
  /\ wev' = NoEvent
  /\ tun_out' = << >>
  /\ failed' = FALSE
  /\ UNCHANGED <<sink_dic, objs, os_vars, wobj, main_vars, hist_vars>>

\* IPV6Sink.__init__ as far as the NDP cache goes: the object after
\* add_ndp_entry(0xffffffff) succeeded
NewSink(name) ==
  [FreeObj EXCEPT !.used = TRUE, !.name = name,
                  !.wp_address = NodeAddressOf(name),
                  !.neigh_proxy = {BROADCAST},
                  !.net_adds = [n \in Nodes |-> IF n = BROADCAST THEN 1 ELSE 0]]

\* a slip: the sink is taken whatever read_config reports
StackStarted_Ignored(started) == TRUE
\* sink_config["started"] of IPV6Sink.__init__
StackStarted(started) == started

\* on_sink_connected / on_stack_started -> _add_sink_entry, up to and
\* including self.sink_dic[name] = ipv6_sink
AttachBeginIn(slots, kind, name, started, fault) ==
  /\ wpc = "idle"
  /\ wev' = Event(kind, name, started)
  /\ UNCHANGED <<routes, addrs, tun_out, main_vars>>
  /\ IF ~StackStarted(started)
     THEN \* IPV6Sink.__init__ raises RuntimeError("Stack not started yet")
          /\ WorkerIdle(objs, sink_dic)
          /\ history' = IF history[name] = "fresh"
                        THEN [history EXCEPT ![name] = "skipped"] ELSE history
          /\ UNCHANGED <<proxies, failed>>
     ELSE IF fault
     THEN \* the neigh add of add_ndp_entry fails: RuntimeError, caught alike
          /\ WorkerIdle(objs, sink_dic)
          /\ failed' = TRUE
          /\ history' = Taint(name)
          /\ UNCHANGED proxies
     ELSE /\ slots # {}
          /\ LET o == CHOOSE x \in slots : \A y \in slots : x <= y
                 d2 == [sink_dic EXCEPT ![name] = o]
             IN /\ objs' = Reclaim([objs EXCEPT ![o] = NewSink(name)], d2, o)
                /\ sink_dic' = d2
                /\ wobj' = o
          /\ wpc' = "att_route"
          /\ proxies' = proxies \cup {NodeAddress(NodeAddressOf(name), BROADCAST)}
          /\ history' = IF InDic(name) THEN Taint(name) ELSE history
          /\ UNCHANGED failed

AttachBegin(kind, name, started, fault) ==
  AttachBeginIn(FreeSlots, kind, name, started, fault)

\* a command of the worker failed: RuntimeError leaves the callback
WorkerRaise(fault) ==
  /\ WorkerEnd("raise", objs, sink_dic)
  /\ failed' = TRUE
  /\ history' = Taint(wev.name)

\* _add_route_to_tun_interface(ipv6_sink.ipv6_sink_prefix)
AttachRoute(fault) ==
  /\ wpc = "att_route"
  /\ LET r == ipv6_sink_prefix(objs[wobj].wp_address)
     IN IF fault \/ r \in routes
        THEN WorkerRaise(fault) /\ UNCHANGED routes
        ELSE /\ routes' = routes \cup {r}
             /\ wpc' = "att_addr"
             /\ UNCHANGED <<sink_dic, objs, failed, wobj, history>>
  /\ UNCHANGED <<addrs, proxies, tun_out, wev, main_vars>>

\* _add_address_to_tun_interface(ipv6_sink.ipv6_interface_address)
AttachAddress(fault) ==
  /\ wpc = "att_addr"
  /\ LET a == ipv6_interface_address(objs[wobj].wp_address)
     IN IF fault \/ a \in addrs
        THEN WorkerRaise(fault) /\ UNCHANGED addrs
        ELSE /\ addrs' = addrs \cup {a}
             /\ wpc' = "att_start"
             /\ UNCHANGED <<sink_dic, objs, failed, wobj, history>>
  /\ UNCHANGED <<routes, proxies, tun_out, wev, main_vars>>

\* ipv6_sink.start(): the listener thread exists from here on
AttachStart ==
  /\ wpc = "att_start"
  /\ WorkerIdle([objs EXCEPT ![wobj].lpc = "init"], sink_dic)
  /\ history' = IF history[wev.name] = "skipped"
                THEN [history EXCEPT ![wev.name] = "fresh"] ELSE history
  /\ UNCHANGED <<os_vars, tun_out, failed, wev, main_vars>>

\* a slip: the KeyError of an unknown sink is not caught
DetachBegin_Uncaught(kind, name, fault) ==
  /\ wpc = "idle"
  /\ wev' = Event(kind, name, FALSE)
  /\ UNCHANGED <<addrs, proxies, tun_out, main_vars>>
  /\ ~fault
  /\ IF ~InDic(name)
     THEN /\ WorkerEnd("raise", objs, sink_dic)
          /\ failed' = TRUE
          /\ UNCHANGED <<routes, history>>
     ELSE /\ routes' = routes \ {ipv6_sink_prefix(objs[sink_dic[name]].wp_address)}
          /\ wpc' = "det_addr"
          /\ wobj' = sink_dic[name]
          /\ UNCHANGED <<sink_dic, objs, failed, history>>

\* on_sink_disconnected / on_stack_stopped -> _remove_sink_entry, up to and
\* including _remove_route_to_tun_interface
DetachBegin(kind, name, fault) ==
  /\ wpc = "idle"
  /\ wev' = Event(kind, name, FALSE)
  /\ UNCHANGED <<addrs, proxies, tun_out, main_vars>>
  /\ IF ~InDic(name)
     THEN \* KeyError: logged
          /\ ~fault
          /\ WorkerIdle(objs, sink_dic)
          /\ UNCHANGED <<routes, failed, history>>
     ELSE LET r == ipv6_sink_prefix(objs[sink_dic[name]].wp_address)
          IN IF fault \/ r \notin routes
             THEN /\ WorkerEnd("raise", objs, sink_dic)
                  /\ failed' = TRUE
                  /\ history' = Taint(name)
                  /\ UNCHANGED routes
             ELSE /\ routes' = routes \ {r}
                  /\ wpc' = "det_addr"
                  /\ wobj' = sink_dic[name]
                  /\ UNCHANGED <<sink_dic, objs, failed, history>>

\* a slip: the address is left on the TUN
DetachAddress_Kept(fault) ==
  /\ wpc = "det_addr"
  /\ wpc' = "stop_running"
  /\ UNCHANGED <<sink_dic, objs, os_vars, tun_out, failed, wev, wobj, main_vars,
                 hist_vars>>

\* _remove_address_from_tun_interface(ipv6_sink.ipv6_interface_address)
DetachAddress(fault) ==
  /\ wpc = "det_addr"
  /\ LET a == ipv6_interface_address(objs[wobj].wp_address)
     IN IF fault \/ a \notin addrs
        THEN WorkerRaise(fault) /\ UNCHANGED addrs
        ELSE /\ addrs' = addrs \ {a}
             /\ wpc' = "stop_running"
             /\ UNCHANGED <<sink_dic, objs, failed, wobj, history>>
  /\ UNCHANGED <<routes, proxies, tun_out, wev, main_vars>>

(* ------------------------- IPV6Sink.stop ------------------------------ *)
\* self.running = False
StopRunning ==
  /\ wpc = "stop_running"
  /\ objs' = [objs EXCEPT ![wobj].running = FALSE]
  /\ wpc' = "stop_wake"
  /\ UNCHANGED <<sink_dic, os_vars, tun_out, failed, wev, wobj, main_vars, hist_vars>>

\* self._sp_w.send(b"x")
StopWake ==
  /\ wpc = "stop_wake"
  /\ objs' = [objs EXCEPT ![wobj].wake = @ + 1]
  /\ wpc' = "stop_join"
  /\ UNCHANGED <<sink_dic, os_vars, tun_out, failed, wev, wobj, main_vars, hist_vars>>

ThreadEnded(o) == objs[o].lpc \in {"exited", "dead"}

\* self.join(): returns once run() has ended; RuntimeError on a thread that
\* was never started
StopJoin ==
  /\ wpc = "stop_join"
  /\ IF objs[wobj].lpc = "none"
     THEN WorkerRaise(FALSE)
     ELSE /\ ThreadEnded(wobj)
          /\ wpc' = "stop_ndp"
          /\ UNCHANGED <<sink_dic, objs, failed, wobj, history>>
  /\ UNCHANGED <<os_vars, tun_out, wev, main_vars>>

\* remove_ndp_entry(neigh) for one neigh of list(self._neigh_proxy)
remove_ndp_entry(o, node, fault) ==
  LET a == NodeAddress(objs[o].wp_address, node)
  IN IF fault \/ a \notin proxies
     THEN WorkerRaise(fault) /\ UNCHANGED proxies
     ELSE /\ proxies' = proxies \ {a}
          /\ objs' = [objs EXCEPT ![o].neigh_proxy = @ \ {node},
                                  ![o].net_adds[node] = @ - 1]
          /\ UNCHANGED <<sink_dic, wpc, failed, wobj, history>>

StopRemoveNdp(node, fault) ==
  /\ wpc = "stop_ndp"
  /\ node \in objs[wobj].neigh_proxy
  /\ remove_ndp_entry(wobj, node, fault)
  /\ UNCHANGED <<routes, addrs, tun_out, wev, main_vars>>

\* stop() returned; del self.sink_dic[name]
DetachDel ==
  /\ wpc = "stop_ndp"
  /\ objs[wobj].neigh_proxy = {}
  /\ WorkerIdle(objs, [sink_dic EXCEPT ![wev.name] = NoObj])
  /\ UNCHANGED <<os_vars, tun_out, failed, wev, main_vars, hist_vars>>

(* ------------------------- IPV6Sink.run ------------------------------- *)
\* source addresses recvfrom can report: "2001:db8:1:2:a0b:c0d:0:1" (no "::")
\* and "fe80::1"
DatagramSources ==
  { [parts |-> << <<8193, 3512, 1, 2, 2571, 3085, 0, 1>> >>, plen |-> NoLen],
    [parts |-> << <<65152>>, <<1>> >>, plen |-> NoLen] }

SocketBound(o) == objs[o].lpc \in {"bound", "loop", "add_cmd", "add_set"}

ListenerStep(o, rec) ==
  /\ objs' = Reclaim([objs EXCEPT ![o] = rec], sink_dic, wobj)
  /\ UNCHANGED <<sink_dic, routes, addrs, tun_out, worker_vars, main_vars>>

\* socket(), setblocking, bind((ipv6_interface_address, 6666)): OSError ends
\* the thread when the address is not on the TUN or the port is taken
ListenerBind(o) ==
  /\ objs[o].lpc = "init"
  /\ LET can == /\ ipv6_interface_address(objs[o].wp_address) \in addrs
                /\ \A p \in ObjIds \ {o} :
                     ~(SocketBound(p) /\ objs[p].wp_address = objs[o].wp_address)
     IN ListenerStep(o, [objs[o] EXCEPT !.lpc = IF can THEN "bound" ELSE "dead"])
  /\ UNCHANGED <<proxies, failed, history>>

\* self.running = True
ListenerRunning(o) ==
  /\ objs[o].lpc = "bound"
  /\ ListenerStep(o, [objs[o] EXCEPT !.running = TRUE, !.lpc = "loop"])
  /\ UNCHANGED <<proxies, failed, history>>

\* "while self.running" finds it False: sock.close(), the thread ends
ListenerExit(o) ==
  /\ objs[o].lpc = "loop"
  /\ ~objs[o].running
  /\ ListenerStep(o, [objs[o] EXCEPT !.lpc = "exited"])
  /\ UNCHANGED <<proxies, failed, history>>

\* select returns with self._sp_r readable: recv(1), continue
ListenerWakeup(o) ==
  /\ objs[o].lpc = "loop"
  /\ objs[o].running
  /\ objs[o].wake > 0
  /\ ListenerStep(o, [objs[o] EXCEPT !.wake = @ - 1, !.lpc = "loop"])
  /\ UNCHANGED <<proxies, failed, history>>

\* select returns with sock readable: recvfrom, from_srting, and the
\* membership test of add_ndp_entry
ListenerDatagram(o, lit) ==
  /\ objs[o].lpc = "loop"
  /\ objs[o].running
  /\ objs[o].wake = 0
  /\ LET a == from_srting(lit)
     IN IF a.exc # "" \/ a.prefix_len # 128
        THEN ListenerStep(o, [objs[o] EXCEPT !.lpc = "dead"])
        ELSE IF wirepas_node_add(a) \in objs[o].neigh_proxy
        THEN ListenerStep(o, [objs[o] EXCEPT !.lpc = "loop"])
        ELSE ListenerStep(o, [objs[o] EXCEPT !.lpc = "add_cmd",
                                             !.lnode = wirepas_node_add(a)])
  /\ UNCHANGED <<proxies, failed, history>>

\* add_ndp_entry: the "ip neigh add ... proxy" command
ListenerAddCmd(o, fault) ==
  /\ objs[o].lpc = "add_cmd"
  /\ IF fault
     THEN /\ ListenerStep(o, [objs[o] EXCEPT !.lpc = "dead", !.lnode = U32(0, 0)])
          /\ history' = Taint(objs[o].name)
          /\ UNCHANGED <<proxies, failed>>
     ELSE /\ ListenerStep(o, [objs[o] EXCEPT !.lpc = "add_set",
                                             !.net_adds[objs[o].lnode] = @ + 1])
          /\ proxies' = proxies \cup {NodeAddress(objs[o].wp_address, objs[o].lnode)}
          /\ UNCHANGED <<failed, history>>

\* add_ndp_entry: self._neigh_proxy.add(node_address)
ListenerAddSet(o) ==
  /\ objs[o].lpc = "add_set"
  /\ ListenerStep(o, [objs[o] EXCEPT !.neigh_proxy = @ \cup {objs[o].lnode},
                                     !.lnode = U32(0, 0), !.lpc = "loop"])
  /\ UNCHANGED <<proxies, failed, history>>

(* -------------------- SDK worker: on_data_received -------------------- *)
Endpoints == {WIREPAS_IPV6_EP, WIREPAS_IPV6_EP + 1}
FrameData == { <<96, 1>>, <<96, 2>> }

Frame(sink_id, src, src_ep, dst_ep, data) ==
  [kind |-> "data_received", name |-> sink_id, started |-> FALSE, src |-> src,
   src_ep |-> src_ep, dst_ep |-> dst_ep, data |-> data]

\* a slip: one matching endpoint is enough
IsIpv6Traffic_Either(src_ep, dst_ep) ==
  src_ep = WIREPAS_IPV6_EP \/ dst_ep = WIREPAS_IPV6_EP
\* src_ep == WIREPAS_IPV6_EP and dst_ep == WIREPAS_IPV6_EP
IsIpv6Traffic(src_ep, dst_ep) ==
  src_ep = WIREPAS_IPV6_EP /\ dst_ep = WIREPAS_IPV6_EP

\* on_data_received up to the membership test of add_ndp_entry
RxBegin(sink_id, src, src_ep, dst_ep, data) ==
  /\ wpc = "idle"
  /\ wev' = Frame(sink_id, src, src_ep, dst_ep, data)
  /\ IF ~IsIpv6Traffic(src_ep, dst_ep)
     THEN wpc' = "return" /\ wobj' = NoObj
     ELSE IF ~InDic(sink_id)
     THEN \* _add_ndp_entry: KeyError, logged
          wpc' = "rx_write" /\ wobj' = NoObj
     ELSE IF src \in objs[sink_dic[sink_id]].neigh_proxy
     THEN wpc' = "rx_write" /\ wobj' = sink_dic[sink_id]
     ELSE wpc' = "rx_cmd" /\ wobj' = sink_dic[sink_id]
  /\ UNCHANGED <<sink_dic, objs, os_vars, tun_out, failed, main_vars, hist_vars>>

\* add_ndp_entry: the "ip neigh add ... proxy" command
RxAddCmd(fault) ==
  /\ wpc = "rx_cmd"
  /\ IF fault
     THEN WorkerRaise(fault) /\ UNCHANGED proxies
     ELSE /\ proxies' = proxies \cup {NodeAddress(objs[wobj].wp_address, wev.src)}
          /\ objs' = [objs EXCEPT ![wobj].net_adds[wev.src] = @ + 1]
          /\ wpc' = "rx_set"
          /\ UNCHANGED <<sink_dic, failed, wobj, history>>
  /\ UNCHANGED <<routes, addrs, tun_out, wev, main_vars>>

\* a slip: the node is not inserted
RxAddSet_NoInsert ==
  /\ wpc = "rx_set"
  /\ wpc' = "rx_write"
  /\ UNCHANGED <<sink_dic, objs, os_vars, tun_out, failed, wev, wobj, main_vars,
                 hist_vars>>

\* add_ndp_entry: self._neigh_proxy.add(node_address)
RxAddSet ==
  /\ wpc = "rx_set"
  /\ objs' = [objs EXCEPT ![wobj].neigh_proxy = @ \cup {wev.src}]
  /\ wpc' = "rx_write"
  /\ UNCHANGED <<sink_dic, os_vars, tun_out, failed, wev, wobj, main_vars, hist_vars>>

\* os.write(self.tun.fileno(), data)
RxWrite ==
  /\ wpc = "rx_write"
  /\ tun_out' = Append(tun_out, wev.data)
  /\ WorkerIdle(objs, sink_dic)
  /\ UNCHANGED <<os_vars, failed, wev, main_vars, hist_vars>>

(* --------------------- main thread: IPV6Transport.start --------------- *)
Header(next_header) == <<96, 0, 0, 0, 0, 0, next_header, 64>>
HostSrc == <<32, 1, 13, 184, 0, 1, 0, 9, 0, 0, 0, 0, 0, 0, 0, 7>>
MeshDst(sink_add, node_add) ==
  <<32, 1, 13, 184, 0, 1, 0, 2>> \o to_bytes4(sink_add) \o to_bytes4(node_add)
MulticastDst == <<255, 2, 0, 0, 0, 0, 0, 0, 0, 0, 0, 0, 0, 0, 0, 1>>

\* packets the TUN read can return
Packets ==
  { Header(UDP_NEXT_HEADER) \o HostSrc \o MeshDst(NodeAddressOf("sink0"), U32(0, 1)),
    Header(ICMPV6_NEXT_HEADER) \o HostSrc \o MeshDst(NodeAddressOf("sink1"), U32(0, 1)),
    Header(6) \o HostSrc \o MeshDst(NodeAddressOf("sink0"), U32(0, 1)),
    Header(UDP_NEXT_HEADER) \o HostSrc \o MulticastDst,
    Header(UDP_NEXT_HEADER) \o HostSrc \o MeshDst(ForeignSinkAdd, U32(0, 1)),
    Header(UDP_NEXT_HEADER) \o HostSrc \o <<255, 2>>,
    <<96, 0, 0>> }

\* a slip: TCP (6) is let through as well
Propagated_Tcp(next_header) ==
  next_header = ICMPV6_NEXT_HEADER \/ next_header = UDP_NEXT_HEADER \/ next_header = 6
\* only icmpv6 (58) and UDP (17) are propagated
Propagated(next_header) ==
  next_header = ICMPV6_NEXT_HEADER \/ next_header = UDP_NEXT_HEADER

\* one turn of the loop, from os.read to the creation of the iterator of
\* "for ipv6_sink in self.sink_dic.values()"
MainRead(p) ==
  /\ mpc = "read"
  /\ packet' = p
  /\ sent' = NoSend
  /\ it_seen' = {}
  /\ IF Len(p) < 7
     THEN mpc' = "IndexError" /\ UNCHANGED <<dst_addr, it_used>>
     ELSE LET next_header == p[7]
              src == Ipv6Add(Slice(p, 8, 24), 128)
              dst == Ipv6Add(Slice(p, 24, 40), 128)
              bound == IF src.exc # "" \/ dst.exc # "" THEN dst_addr ELSE dst
          IN IF ~Propagated(next_header)
             THEN mpc' = "read" /\ UNCHANGED <<dst_addr, it_used>>
             ELSE IF bound = Unbound
             THEN mpc' = "NameError" /\ UNCHANGED <<dst_addr, it_used>>
             ELSE /\ dst_addr' = bound
                  /\ IF start_with_prefix(bound, <<255, 2>>)
                     THEN mpc' = "read" /\ UNCHANGED it_used
                     ELSE /\ mpc' = "iter"
                          /\ it_used' = Cardinality(DicKeys(sink_dic))
  /\ UNCHANGED <<sink_dic, objs, os_vars, tun_out, failed, worker_vars, hist_vars>>

\* a slip: the packet goes out without its 40-byte header
send_data_Payload(o, node_address, data) ==
  [obj_name |-> objs[o].name, dst_node |-> node_address,
   src_ep |-> WIREPAS_IPV6_EP, dst_ep |-> WIREPAS_IPV6_EP, qos |-> QOS,
   data |-> Slice(data, 40, Len(data))]

\* IPV6Sink.send_data: self._sink.send_data(node, 66, 66, 1, 0, data, False, 0)
send_data(o, node_address, data) ==
  [obj_name |-> objs[o].name, dst_node |-> node_address,
   src_ep |-> WIREPAS_IPV6_EP, dst_ep |-> WIREPAS_IPV6_EP, qos |-> QOS,
   data |-> data]

\* the iterator found the dict changed size: RuntimeError
MainIterChanged ==
  /\ mpc = "iter"
  /\ Cardinality(DicKeys(sink_dic)) # it_used
  /\ mpc' = "RuntimeError"
  /\ UNCHANGED <<packet, dst_addr, it_used, it_seen, sent>>
  /\ UNCHANGED <<sink_dic, objs, os_vars, tun_out, failed, worker_vars, hist_vars>>

\* the iterator is exhausted: "No sink with id", next packet
MainIterEnd ==
  /\ mpc = "iter"
  /\ Cardinality(DicKeys(sink_dic)) = it_used
  /\ DicKeys(sink_dic) \subseteq it_seen
  /\ mpc' = "read"
  /\ UNCHANGED <<packet, dst_addr, it_used, it_seen, sent>>
  /\ UNCHANGED <<sink_dic, objs, os_vars, tun_out, failed, worker_vars, hist_vars>>

\* the iterator yields the next value: compare, send_data and break on a match
MainIterNext(k) ==
  /\ mpc = "iter"
  /\ Cardinality(DicKeys(sink_dic)) = it_used
  /\ k \in DicKeys(sink_dic) \ it_seen
  /\ IF objs[sink_dic[k]].wp_address = wirepas_sink_add(dst_addr)
     THEN /\ sent' = send_data(sink_dic[k], wirepas_node_add(dst_addr), packet)
          /\ mpc' = "read"
          /\ UNCHANGED it_seen
     ELSE /\ it_seen' = it_seen \cup {k}
          /\ UNCHANGED <<mpc, sent>>
  /\ UNCHANGED <<packet, dst_addr, it_used>>
  /\ UNCHANGED <<sink_dic, objs, os_vars, tun_out, failed, worker_vars, hist_vars>>

(* ---------------------------- specification --------------------------- *)
\* the SDK worker and the listener threads
Control ==
  \/ \E k \in AttachKinds, s \in SinkIds, st \in BOOLEAN, f \in FaultChoices :
       AttachBegin(k, s, st, f)
  \/ \E f \in FaultChoices : AttachRoute(f)
  \/ \E f \in FaultChoices : AttachAddress(f)
  \/ AttachStart
  \/ \E k \in DetachKinds, s \in SinkIds, f \in FaultChoices : DetachBegin(k, s, f)
  \/ \E f \in FaultChoices : DetachAddress(f)
  \/ StopRunning
  \/ StopWake
  \/ StopJoin
  \/ \E n \in Nodes, f \in FaultChoices : StopRemoveNdp(n, f)
  \/ DetachDel
  \/ \E s \in SinkIds, n \in MeshNodes, se \in Endpoints, de \in Endpoints,
        d \in FrameData : RxBegin(s, n, se, de, d)
  \/ \E f \in FaultChoices : RxAddCmd(f)
  \/ RxAddSet
  \/ RxWrite
  \/ \E o \in ObjIds : ListenerBind(o)
  \/ \E o \in ObjIds : ListenerRunning(o)
  \/ \E o \in ObjIds : ListenerExit(o)
  \/ \E o \in ObjIds : ListenerWakeup(o)
  \/ \E o \in ObjIds, lit \in DatagramSources : ListenerDatagram(o, lit)
  \/ \E o \in ObjIds, f \in FaultChoices : ListenerAddCmd(o, f)
  \/ \E o \in ObjIds : ListenerAddSet(o)
  \/ WorkerDone

\* the main thread
Outbound ==
  \/ \E p \in Packets : MainRead(p)
  \/ MainIterChanged
  \/ MainIterEnd
  \/ \E k \in SinkIds : MainIterNext(k)

\* the callbacks that change the sink table, their commands succeeding, and
\* the listeners with no datagram arriving
Lifecycle ==
  \/ \E s \in SinkIds : AttachBegin("sink_connected", s, TRUE, FALSE)
  \/ AttachRoute(FALSE)
  \/ AttachAddress(FALSE)
  \/ AttachStart
  \/ \E s \in SinkIds : DetachBegin("sink_disconnected", s, FALSE)
  \/ DetachAddress(FALSE)
  \/ StopRunning
  \/ StopWake
  \/ StopJoin
  \/ \E n \in Nodes : StopRemoveNdp(n, FALSE)
  \/ DetachDel
  \/ WorkerDone
  \/ \E o \in ObjIds : ListenerBind(o)
  \/ \E o \in ObjIds : ListenerRunning(o)
  \/ \E o \in ObjIds : ListenerExit(o)
  \/ \E o \in ObjIds : ListenerWakeup(o)

\* the control plane: the SDK worker and the listeners
Next == Control /\ UNCHANGED <<codec_vars, config_vars, startup_vars, inbound_vars>>
Spec == Init /\ [][Next]_vars

\* the outbound datapath: the main thread beside the SDK worker's lifecycle
\* callbacks
OutboundNext ==
  (Outbound \/ Lifecycle) /\ UNCHANGED <<codec_vars, config_vars, startup_vars, inbound_vars>>
OutboundSpec == Init /\ [][OutboundNext]_vars

\* the lifecycle callbacks with an attach also arriving for a sink that is in
\* the table (on_sink_connected and on_stack_started of one sink, or either
\* of them twice), the commands failing only as the OS state makes them
Reattach ==
  \/ \E s \in SinkIds, k \in AttachKinds : AttachBeginIn(SlotsFor(s), k, s, TRUE, FALSE)
  \/ AttachRoute(FALSE)
  \/ AttachAddress(FALSE)
  \/ AttachStart
  \/ \E s \in SinkIds : DetachBegin("sink_disconnected", s, FALSE)
  \/ DetachAddress(FALSE)
  \/ StopRunning
  \/ StopWake
  \/ StopJoin
  \/ \E n \in Nodes : StopRemoveNdp(n, FALSE)
  \/ DetachDel
  \/ WorkerDone
  \/ \E o \in ObjIds : ListenerBind(o)
  \/ \E o \in ObjIds : ListenerRunning(o)
  \/ \E o \in ObjIds : ListenerExit(o)
  \/ \E o \in ObjIds : ListenerWakeup(o)
ReattachNext ==
  Reattach /\ UNCHANGED <<codec_vars, config_vars, startup_vars, inbound_vars>>
ReattachSpec == Init /\ [][ReattachNext]_vars


(* ----------------------- the codecs on their own ---------------------- *)
\* byte strings handed to IPV6NetworkConfig.from_bytes
Prefix1 == <<32, 1, 13, 184, 0, 1, 0, 2>>
Prefix2 == <<253, 0, 0, 0, 0, 0, 0, 9>>
OffMesh1 == <<32, 1, 13, 184, 0, 0, 0, 0, 0, 0, 0, 0, 0, 0, 0, 83>>
ConfigHeaders == {0, 7, 15, 16}
ConfigEntries ==
  { <<0>> \o Prefix1, <<0>> \o Prefix2, <<1>> \o Prefix1, <<128>> \o OffMesh1,
    <<0, 1, 2>>, <<128>> \o Prefix1 }
ConfigBodies ==
  {<< >>} \cup ConfigEntries \cup {e1 \o e2 : e1 \in ConfigEntries, e2 \in ConfigEntries}
ConfigValues == {<< >>} \cup {<<h>> \o b : h \in ConfigHeaders, b \in ConfigBodies}

\* addresses and prefixes handed to the Ipv6Add operations
FieldValues == {U32(0, 0), U32(0, 1), U32(2571, 3085), BROADCAST}
Addresses ==
  { Ipv6Add(p \o to_bytes4(sk) \o to_bytes4(nd), 128) :
      p \in {Prefix1, Prefix2}, sk \in FieldValues, nd \in FieldValues }
Prefixes ==
  { Ipv6Add(Prefix1, 64), Ipv6Add(Prefix1 \o Zeros(8), 64),
    Ipv6Add(Prefix1 \o to_bytes4(U32(2571, 3085)) \o Zeros(4), 96),
    Ipv6Add(<<255, 2>>, 16) }

\* to_bytes(from_bytes(b))
CodecConfig(b) ==
  /\ fn' = LET c == from_bytes(b)
           IN [op |-> "config", inp |-> b, mid |-> c,
               out |-> IF c.exc # "" THEN RaisedBytes(c.exc) ELSE to_bytes(c)]
  /\ UNCHANGED <<sink_dic, objs, os_vars, tun_out, failed, worker_vars, main_vars,
                 hist_vars>>

\* from_srting(str(a))
CodecText(a) ==
  /\ fn' = [op |-> "text", inp |-> a, mid |-> __str__(a), out |-> from_srting(__str__(a))]
  /\ UNCHANGED <<sink_dic, objs, os_vars, tun_out, failed, worker_vars, main_vars,
                 hist_vars>>

\* from_prefix_sink_add_and_sink_node over the fields of a; the /64 prefix of
\* a is held either as its 8 bytes or, as the discovered prefix is, as 16
CodecFields(a, whole) ==
  /\ fn' = LET p == Ipv6Add(IF whole THEN Slice(a.add, 0, 8) \o Zeros(8)
                            ELSE Slice(a.add, 0, 8), 64)
           IN [op |-> "fields", inp |-> a, mid |-> p,
               out |-> from_prefix_sink_add_and_sink_node(
                         p, wirepas_sink_add(a), wirepas_node_add(a))]
  /\ UNCHANGED <<sink_dic, objs, os_vars, tun_out, failed, worker_vars, main_vars,
                 hist_vars>>

CodecNext ==
  /\ \/ \E b \in ConfigValues : CodecConfig(b)
     \/ \E a \in Addresses \cup Prefixes : CodecText(a)
     \/ \E a \in Addresses : \E whole \in BOOLEAN : CodecFields(a, whole)
  /\ UNCHANGED <<config_vars, startup_vars, inbound_vars>>
CodecSpec == Init /\ [][CodecNext]_vars


(* --------------------- attach and the sink's config -------------------- *)
\* the sink whose stored config is varied
ConfigSinks == {"sink0"}
OtherType == 10
OffMesh2 == <<32, 1, 13, 184, 0, 0, 0, 0, 0, 0, 0, 0, 0, 0, 0, 84>>
\* values found under TLV type 66: empty, version 1, nonce 7 with another
\* prefix, nonce 15 with prefix and off-mesh service, a cut prefix entry, a
\* bare header
Type66Values ==
  { << >>, <<16, 0>> \o Prefix1, <<7, 0>> \o Prefix2,
    <<15, 0>> \o Prefix1 \o <<128>> \o OffMesh1, <<3, 0, 1, 2>>, <<5>> }
StoredEntries ==
  LET other == [t \in {OtherType} |-> <<1, 2>>]
  IN {NoEntries, other}
       \cup {add_entry(e, APP_CONFIG_TLV_TYPE_PREFIX, v) :
               e \in {NoEntries, other}, v \in Type66Values}
DiagValues == {30, 60}
StoredConfigs ==
  {SinkConfig(FALSE, NotTlv, 0, d) : d \in DiagValues}
    \cup {SinkConfig(TRUE, NotTlv, 5, d) : d \in DiagValues}
    \cup {SinkConfig(TRUE, Envelope(e), 5, d) : e \in StoredEntries, d \in DiagValues}

ConfigInit ==
  /\ CoreInit /\ StartupDone
  /\ \E c \in StoredConfigs :
       sink_cfg = [s \in SinkIds |-> IF s \in ConfigSinks THEN c ELSE EmptyConfig]
  /\ cfg_in = EmptyConfig /\ cfg_out = NoWrite
  /\ off_mesh \in {None, Ipv6Add(OffMesh2, 128)}

\* a slip: the application config is written before started is looked at
ConfigAttach_WriteFirst(kind, name, started) ==
  LET r == _update_ipv6_config_to_app_config(sink_cfg[name], off_mesh)
  IN /\ cfg_in' = sink_cfg[name]
     /\ UNCHANGED <<off_mesh, codec_vars, startup_vars, inbound_vars>>
     /\ r.exc = ""
     /\ AttachBegin(kind, name, started, FALSE)
     /\ cfg_out' = r
     /\ sink_cfg' = [sink_cfg EXCEPT ![name] = r.new_config]

\* _add_sink_entry with IPV6Sink.__init__ in full: read_config, the started
\* test, write_config of the updated application config, then the rest
ConfigAttach(kind, name, started) ==
  LET r == _update_ipv6_config_to_app_config(sink_cfg[name], off_mesh)
  IN /\ cfg_in' = sink_cfg[name]
     /\ UNCHANGED <<off_mesh, codec_vars, startup_vars, inbound_vars>>
     /\ IF started /\ r.exc # ""
        THEN \* neither KeyError nor ValueError nor RuntimeError: the
             \* exception leaves __init__ and _add_sink_entry
             /\ wpc = "idle"
             /\ wev' = Event(kind, name, started)
             /\ WorkerEnd("raise", objs, sink_dic)
             /\ failed' = TRUE
             /\ cfg_out' = r
             /\ UNCHANGED <<os_vars, tun_out, main_vars, hist_vars, sink_cfg>>
        ELSE /\ AttachBegin(kind, name, started, FALSE)
             /\ cfg_out' = IF started THEN r ELSE NoWrite
             /\ sink_cfg' = IF started THEN [sink_cfg EXCEPT ![name] = r.new_config]
                            ELSE sink_cfg

ConfigNext ==
  \/ \E k \in AttachKinds : \E s \in ConfigSinks : \E st \in BOOLEAN :
       ConfigAttach(k, s, st)
  \/ /\ \/ AttachRoute(FALSE)
        \/ AttachAddress(FALSE)
        \/ AttachStart
        \/ \E s \in ConfigSinks : DetachBegin("sink_disconnected", s, FALSE)
        \/ DetachAddress(FALSE)
        \/ StopRunning
        \/ StopWake
        \/ StopJoin
        \/ \E n \in Nodes : StopRemoveNdp(n, FALSE)
        \/ DetachDel
        \/ WorkerDone
        \/ \E o \in ObjIds : ListenerBind(o)
        \/ \E o \in ObjIds : ListenerRunning(o)
        \/ \E o \in ObjIds : ListenerExit(o)
        \/ \E o \in ObjIds : ListenerWakeup(o)
     /\ UNCHANGED <<codec_vars, config_vars, startup_vars, inbound_vars>>
ConfigSpec == ConfigInit /\ [][ConfigNext]_vars


(* ------------------------------ startup ------------------------------- *)
ATTEMPTS == 5
\* --off_mesh_service: absent, "2001:db8::53", "2001:db8:0:0:0:0:0:53" and
\* "::/200"
OffMeshLiterals ==
  { NoLiteral,
    [parts |-> << <<8193, 3512>>, <<83>> >>, plen |-> NoLen],
    [parts |-> << <<8193, 3512, 0, 0, 0, 0, 0, 83>> >>, plen |-> NoLen],
    [parts |-> << <<EmptyGroup>>, <<EmptyGroup>> >>, plen |-> 200] }

\* what a prior instance left on tun_wirepas
StaleRoutes == {ipv6_sink_prefix(NodeAddressOf("sink0"))}
StaleAddrs == {ipv6_interface_address(NodeAddressOf("sink0"))}

StartupInit ==
  /\ CoreInit /\ ConfigIdle
  /\ spc = "main" /\ slog = << >> /\ attempts = 0 /\ exit_code = -1
  /\ arg \in OffMeshLiterals /\ todo = {}
  /\ \/ tun = FALSE /\ routes = {} /\ addrs = {}
     \/ tun = TRUE /\ routes = {} /\ addrs = {}
     \/ tun = TRUE /\ routes = StaleRoutes /\ addrs = StaleAddrs

Step(step, name) == [step |-> step, name |-> name]
Log(step) == slog' = Append(slog, Step(step, ""))
\* an exception nothing catches ends the process
Die == spc' = "died" /\ exit_code' = 1
\* what the commands of startup leave alone
StartupFrame ==
  UNCHANGED <<sink_dic, objs, proxies, tun_out, failed, worker_vars, main_vars,
              hist_vars, codec_vars, sink_cfg, cfg_in, cfg_out, arg, inbound_vars>>

\* a slip: a literal that does not parse is taken as absent
MainParse_Lenient ==
  /\ spc = "main"
  /\ spc' = "tun_del"
  /\ off_mesh' = IF arg = NoLiteral \/ from_srting(arg).exc # "" THEN off_mesh
                 ELSE from_srting(arg)
  /\ StartupFrame
  /\ UNCHANGED <<slog, attempts, exit_code, tun, todo, routes, addrs>>

\* main: the off_mesh_service literal is parsed before the bridge is built
MainParse ==
  /\ spc = "main"
  /\ IF arg = NoLiteral
     THEN spc' = "tun_del" /\ UNCHANGED <<off_mesh, exit_code>>
     ELSE IF from_srting(arg).exc = "ValueError"
     THEN spc' = "exited" /\ exit_code' = 1 /\ UNCHANGED off_mesh   \* exit(1)
     ELSE spc' = "tun_del" /\ off_mesh' = from_srting(arg) /\ UNCHANGED exit_code
  /\ StartupFrame
  /\ UNCHANGED <<slog, attempts, tun, todo, routes, addrs>>

\* _remove_tun_interface: a failure is ignored; the device goes with what is
\* installed on it
TunDel(fault) ==
  /\ spc = "tun_del"
  /\ Log("tun_del")
  /\ spc' = "tun_add"
  /\ IF tun /\ ~fault
     THEN tun' = FALSE /\ routes' = {} /\ addrs' = {}
     ELSE UNCHANGED <<tun, routes, addrs>>
  /\ StartupFrame
  /\ UNCHANGED <<off_mesh, attempts, exit_code, todo>>

\* _create_tun_interface: ip tuntap add
TunAdd(fault) ==
  /\ spc = "tun_add"
  /\ Log("tun_add")
  /\ IF tun \/ fault
     THEN Die /\ UNCHANGED tun
     ELSE spc' = "link_up" /\ tun' = TRUE /\ UNCHANGED exit_code
  /\ StartupFrame
  /\ UNCHANGED <<off_mesh, attempts, todo, routes, addrs>>

\* _create_tun_interface: ip link set up
LinkUp(fault) ==
  /\ spc = "link_up"
  /\ Log("link_up")
  /\ IF fault THEN Die ELSE spc' = "open" /\ UNCHANGED exit_code
  /\ StartupFrame
  /\ UNCHANGED <<off_mesh, attempts, tun, todo, routes, addrs>>

\* _get_tun_interface_fd
TunOpen(fault) ==
  /\ spc = "open"
  /\ Log("open")
  /\ IF fault THEN Die /\ UNCHANGED attempts
     ELSE spc' = "rdisc6" /\ attempts' = ATTEMPTS /\ UNCHANGED exit_code
  /\ StartupFrame
  /\ UNCHANGED <<off_mesh, tun, todo, routes, addrs>>

\* what rdisc6 -q -1 prints when it returns 0: the prefix of the router
\* advertisement, "2001:db8:1:2::/64", or nothing when the advertisement
\* carries no prefix
RdiscOutputs ==
  { [parts |-> << <<8193, 3512, 1, 2>>, <<EmptyGroup>> >>, plen |-> 64],
    [parts |-> << <<EmptyGroup>> >>, plen |-> NoLen] }

\* _get_external_prefix: one run of rdisc6 and, when it returned 0, the
\* parse of what it printed
Rdisc6(fault, out) ==
  /\ spc = "rdisc6"
  /\ Log("rdisc6")
  /\ IF ~fault
     THEN /\ UNCHANGED attempts
          /\ IF from_srting(out).exc # "" THEN Die   \* ValueError
             ELSE /\ from_srting(out) = nw_prefix
                  /\ spc' = "route_replace" /\ UNCHANGED exit_code
     ELSE /\ attempts' = attempts - 1
          /\ IF attempts - 1 = 0 THEN Die ELSE UNCHANGED <<spc, exit_code>>
  /\ StartupFrame
  /\ UNCHANGED <<off_mesh, tun, todo, routes, addrs>>

\* ip -6 route replace for the prefix on the external interface
RouteReplace(fault) ==
  /\ spc = "route_replace"
  /\ Log("route_replace")
  /\ IF fault THEN Die ELSE spc' = "bus_init" /\ UNCHANGED exit_code
  /\ StartupFrame
  /\ UNCHANGED <<off_mesh, attempts, tun, todo, routes, addrs>>

\* super().__init__(), the busThread object, get_sinks()
BusInit(sinks) ==
  /\ spc = "bus_init"
  /\ Log("bus_init")
  /\ spc' = "enumerate"
  /\ todo' = sinks
  /\ StartupFrame
  /\ UNCHANGED <<off_mesh, attempts, exit_code, tun, routes, addrs>>

\* __init__ calls _add_sink_entry for a sink of get_sinks()
StartupAttach(name, started) ==
  /\ spc = "enumerate" /\ name \in todo
  /\ AttachBegin("startup", name, started, FALSE)
  /\ slog' = Append(slog, Step("attach", name))
  /\ todo' = todo \ {name}
  /\ UNCHANGED <<codec_vars, config_vars, inbound_vars, spc, attempts, exit_code, arg,
                 tun>>

\* the rest of _add_sink_entry, and the listeners it started
StartupAttachRest ==
  /\ spc = "enumerate"
  /\ \/ \E f \in FaultChoices : AttachRoute(f)
     \/ \E f \in FaultChoices : AttachAddress(f)
     \/ AttachStart
     \/ WorkerDone /\ wpc = "return"
     \/ \E o \in ObjIds : ListenerBind(o)
     \/ \E o \in ObjIds : ListenerRunning(o)
  /\ UNCHANGED <<codec_vars, config_vars, startup_vars, inbound_vars>>

\* an exception left _add_sink_entry and __init__
StartupDie ==
  /\ spc = "enumerate" /\ wpc = "raise"
  /\ Die
  /\ StartupFrame
  /\ UNCHANGED <<off_mesh, slog, attempts, tun, todo, routes, addrs>>

\* IPV6Transport.start: self.busThread.start()
BusStart ==
  /\ spc = "enumerate" /\ todo = {} /\ wpc = "idle"
  /\ Log("bus_start")
  /\ spc' = "running"
  /\ StartupFrame
  /\ UNCHANGED <<off_mesh, attempts, exit_code, tun, todo, routes, addrs>>

StartupNext ==
  \/ MainParse
  \/ \E f \in FaultChoices : TunDel(f)
  \/ \E f \in FaultChoices : TunAdd(f)
  \/ \E f \in FaultChoices : LinkUp(f)
  \/ \E f \in FaultChoices : TunOpen(f)
  \/ \E f \in FaultChoices : \E out \in RdiscOutputs : Rdisc6(f, out)
  \/ \E f \in FaultChoices : RouteReplace(f)
  \/ \E sinks \in SUBSET SinkIds : BusInit(sinks)
  \/ \E s \in SinkIds : \E st \in BOOLEAN : StartupAttach(s, st)
  \/ StartupAttachRest
  \/ StartupDie
  \/ BusStart
StartupSpec == StartupInit /\ [][StartupNext]_vars


(* -------------------------- inbound ordering -------------------------- *)
MaxFrames == 3

\* an accepted frame as on_data_received was called with it; raised: an
\* exception left that call
Delivery(sink_id, data) == [name |-> sink_id, data |-> data, raised |-> FALSE]
\* a packet on the TUN, with the sink whose frame it came in
TunPacket(sink_id, data) == [name |-> sink_id, data |-> data]

\* the SDK worker calls on_data_received
InboundDeliver(sink_id, src, src_ep, dst_ep, data) ==
  /\ RxBegin(sink_id, src, src_ep, dst_ep, data)
  /\ IF IsIpv6Traffic(src_ep, dst_ep)
     THEN /\ Len(delivered) < MaxFrames
          /\ delivered' = Append(delivered, Delivery(sink_id, data))
     ELSE UNCHANGED delivered
  /\ UNCHANGED written

\* the neigh command of _add_ndp_entry; its RuntimeError leaves the callback
InboundNdp(fault) ==
  /\ RxAddCmd(fault)
  /\ delivered' = IF fault THEN [delivered EXCEPT ![Len(delivered)].raised = TRUE]
                  ELSE delivered
  /\ UNCHANGED written

\* a slip: the packet written last is the one read first
InboundWrite_Front ==
  /\ RxWrite
  /\ written' = << TunPacket(wev.name, tun_out'[Len(tun_out')]) >> \o written
  /\ UNCHANGED delivered

\* os.write(self.tun.fileno(), data): the packet joins those on the TUN
InboundWrite ==
  /\ RxWrite
  /\ written' = Append(written, TunPacket(wev.name, tun_out'[Len(tun_out')]))
  /\ UNCHANGED delivered

\* on_data_received beside the attach of sinks, on the one SDK worker
InboundNext ==
  /\ \/ \E s \in SinkIds, n \in MeshNodes, se \in Endpoints, de \in Endpoints,
           d \in FrameData : InboundDeliver(s, n, se, de, d)
     \/ \E f \in FaultChoices : InboundNdp(f)
     \/ InboundWrite
     \/ /\ \/ RxAddSet
           \/ \E s \in SinkIds : AttachBegin("sink_connected", s, TRUE, FALSE)
           \/ AttachRoute(FALSE)
           \/ AttachAddress(FALSE)
           \/ AttachStart
           \/ WorkerDone
        /\ UNCHANGED inbound_vars
  /\ UNCHANGED <<codec_vars, config_vars, startup_vars>>
InboundSpec == Init /\ [][InboundNext]_vars


(* ----------------------- add_ndp_entry on its own ---------------------- *)
NdpNodes == Nodes \cup {U32(0, 2), U32(0, 3)}
NdpSink == NodeAddressOf("sink0")

\* what one call leaves: the cache, the proxy entries installed, the
\* commands it ran and the exception that left it
NdpResult(cache, installed, cmds, exc) ==
  [cache |-> cache, installed |-> installed, cmds |-> cmds, exc |-> exc]

\* a slip: the node is inserted before the command is run
add_ndp_entry_Eager(cache, installed, node_address, fault) ==
  IF node_address \in cache THEN NdpResult(cache, installed, << >>, "")
  ELSE LET add == NodeAddress(NdpSink, node_address)
       IN IF fault
          THEN NdpResult(cache \cup {node_address}, installed, <<add>>, "RuntimeError")
          ELSE NdpResult(cache \cup {node_address}, installed \cup {add}, <<add>>, "")

\* IPV6Sink.add_ndp_entry as one call: the membership test, the neigh add
\* command (fault: it returns non-zero), the insert
add_ndp_entry(cache, installed, node_address, fault) ==
  IF node_address \in cache THEN NdpResult(cache, installed, << >>, "")
  ELSE LET add == NodeAddress(NdpSink, node_address)
       IN IF fault
          THEN NdpResult(cache, installed, <<add>>, "RuntimeError")
          ELSE NdpResult(cache \cup {node_address}, installed \cup {add}, <<add>>, "")

\* one call after another on the cache of one sink
NdpCall(node_address, fault) ==
  /\ fn.op \in {"none", "add_ndp"}
  /\ LET before == IF fn.op = "none" THEN NdpResult({}, {}, << >>, "") ELSE fn.out
     IN fn' = [op |-> "add_ndp",
               inp |-> [cache |-> before.cache, installed |-> before.installed,
                        node |-> node_address],
               mid |-> fault,
               out |-> add_ndp_entry(before.cache, before.installed,
                                     node_address, fault)]
  /\ UNCHANGED <<sink_dic, objs, os_vars, tun_out, failed, worker_vars, main_vars,
                 hist_vars, config_vars, startup_vars, inbound_vars>>

NdpNext == \E n \in NdpNodes : \E f \in FaultChoices : NdpCall(n, f)
NdpSpec == Init /\ [][NdpNext]_vars


(* ------------------------------ claims -------------------------------- *)
Callback == wpc \notin {"idle", "return", "raise"}
Accepted(ev) == ev.kind = "data_received" /\ ev.src_ep = 66 /\ ev.dst_ep = 66
Caches == [o \in ObjIds |-> objs[o].neigh_proxy]

\* what the OS holds for the sink with mesh address wp
RoutesOf(wp) == {r \in routes : wirepas_sink_add(r) = wp}
AddrsOf(wp) == {a \in addrs : wirepas_sink_add(a) = wp}
ProxiesOf(wp) == {a \in proxies : wirepas_sink_add(a) = wp}

C2_SinkStateMachine ==
  [][\A s \in SinkIds :
       LET begins == wpc = "idle" /\ wev'.kind \in AttachKinds /\ wev'.name = s
       IN /\ (~InDic(s) /\ sink_dic'[s] # NoObj) => (begins /\ wev'.started)
          /\ (begins /\ ~wev'.started)
               => (sink_dic' = sink_dic /\ Caches' = Caches /\ os_vars' = os_vars)
          /\ (begins /\ wev'.started /\ ~failed') => sink_dic'[s] # NoObj
          /\ (InDic(s) /\ sink_dic'[s] = NoObj)
               => (wev.kind \in DetachKinds /\ wev.name = s)
          /\ (wev.kind \in DetachKinds /\ wev.name = s /\ Callback /\ wpc' = "return")
               => sink_dic'[s] = NoObj
    ]_vars

\* a sink skipped as not started is in the table in a later stack_started
C2_Witness ==
  \E s \in SinkIds :
    /\ history[s] = "skipped" /\ InDic(s)
    /\ wev.kind = "stack_started" /\ wev.name = s /\ wev.started

\* C5: an accepted frame for an attached sink whose neigh command succeeds
\* leaves its source node in that sink's cache with the proxy entry
\* installed, both before the TUN write, and the write is the frame's data,
\* whole and once.
C5_InboundPath ==
  /\ (Accepted(wev) /\ wpc \in {"rx_write", "return"} /\ InDic(wev.name))
       => /\ wev.src \in objs[sink_dic[wev.name]].neigh_proxy
          /\ NodeAddress(NodeAddressOf(wev.name), wev.src) \in proxies
  /\ (Accepted(wev) /\ wpc = "return") => tun_out = <<wev.data>>
  /\ wpc \notin {"return", "raise"} => tun_out = << >>

\* an accepted frame from a node not cached before has been written
C5_Witness ==
  /\ Accepted(wev) /\ wpc = "return" /\ InDic(wev.name)
  /\ objs[sink_dic[wev.name]].net_adds[wev.src] = 1
  /\ tun_out = <<wev.data>>

\* C6: a frame whose source or destination endpoint is not 66 writes nothing
\* to the TUN, installs no proxy entry and changes no cache and no table.
C6_EndpointFilter ==
  [][(wpc = "idle" /\ wev'.kind = "data_received" /\ ~Accepted(wev'))
       => /\ wpc' = "return"
          /\ tun_out' = << >> /\ proxies' = proxies
          /\ Caches' = Caches /\ sink_dic' = sink_dic
    ]_vars

\* a frame with one endpoint off, for an attached sink, has been handled
C6_Witness ==
  /\ wev.kind = "data_received" /\ wpc = "return" /\ InDic(wev.name)
  /\ wev.src_ep = 66 /\ wev.dst_ep # 66

\* an add_ndp_entry for node of object o is between its command and its insert
AddInFlight(o, node) ==
  \/ objs[o].lpc = "add_set" /\ objs[o].lnode = node
  \/ wpc = "rx_set" /\ wobj = o /\ wev.src = node

\* C7: for each sink and node, successful ndp_proxy_add minus ndp_proxy_del
\* is 1 if the node is cached and 0 otherwise.
C7_NdpAccounting ==
  \A o \in ObjIds : \A n \in Nodes :
    (objs[o].used /\ ~AddInFlight(o, n))
      => objs[o].net_adds[n] = IF n \in objs[o].neigh_proxy THEN 1 ELSE 0

\* C8: add_ndp_entry is mutually exclusive between the listener and the SDK
\* worker, so ndp_proxy_add runs once for an uncached node.
C8_NdpMutualExclusion ==
  \A o \in ObjIds :
    /\ ~(/\ objs[o].lpc \in {"add_cmd", "add_set"}
         /\ wpc \in {"rx_cmd", "rx_set"} /\ wobj = o
         /\ objs[o].lnode = wev.src)
    /\ \A n \in Nodes : objs[o].net_adds[n] <= 1

\* C10: a stop always gets its listener out of the loop: while stop waits in
\* join, the listener is not waiting with running set and no wakeup pending.
C10_StopJoins ==
  ~(/\ wpc = "stop_join"
    /\ objs[wobj].lpc = "loop" /\ objs[wobj].running /\ objs[wobj].wake = 0)


\* the fields of a packet with a whole IPv6 header
WholeHeader(p) == Len(p) >= 40
DstSink(p) == unpack_I(Slice(p, 32, 36))
DstNode(p) == unpack_I(Slice(p, 36, 40))
Multicast(p) == p[25] = 255 /\ p[26] = 2
Forwardable(p) == WholeHeader(p) /\ p[7] \in {17, 58} /\ ~Multicast(p)
Filtered(p) == Len(p) >= 7 /\ (p[7] \notin {17, 58} \/ (WholeHeader(p) /\ Multicast(p)))

\* C3: a packet with next-header 17 or 58 and a destination outside ff02 is
\* sent at most once, and only as send_data(node field, 66, 66, qos 1, the
\* whole packet) on the sink whose mesh address is the destination's sink
\* field; when the lookup ends it has sent exactly if such a sink is in the
\* table, and otherwise the loop reads on.
C3_OutboundForwarding ==
  /\ [](Forwardable(packet) /\ sent # NoSend
          => \E k \in SinkIds :
               /\ NodeAddressOf(k) = DstSink(packet)
               /\ sent = [obj_name |-> k, dst_node |-> DstNode(packet), src_ep |-> 66,
                          dst_ep |-> 66, qos |-> 1, data |-> packet])
  /\ [][(mpc = "iter" /\ mpc' = "read" /\ Forwardable(packet))
          => /\ sent' # NoSend
                  <=> \E k \in DicKeys(sink_dic) : NodeAddressOf(k) = DstSink(packet)
             /\ sent' # NoSend => sent'.obj_name \in DicKeys(sink_dic)
       ]_vars

\* a UDP packet for an attached sink has been sent, whole
C3_Witness ==
  /\ mpc = "read" /\ Forwardable(packet) /\ packet[7] = 17
  /\ sent # NoSend /\ sent.data = packet /\ InDic(sent.obj_name)

\* C4: a packet whose next header is neither 17 nor 58, or whose destination
\* starts with ff02, causes no send_data and no error: the loop reads on.
C4_OutboundFiltering ==
  [][\A p \in Packets :
       (MainRead(p) /\ Filtered(p)) => (mpc' = "read" /\ sent' = NoSend)
    ]_vars

\* the ff02::1 packet has been read and dropped while a sink is attached
C4_Witness ==
  /\ mpc = "read" /\ WholeHeader(packet) /\ Multicast(packet) /\ sent = NoSend
  /\ DicKeys(sink_dic) # {}

\* C9: the outbound loop never ends because the sink table changed during
\* the lookup.
C9_LookupSurvives == mpc # "RuntimeError"


\* C13: every byte string that from_bytes decodes without error comes back
\* from to_bytes unchanged.
C13_ConfigRoundTrip ==
  (fn.op = "config" /\ fn.mid.exc = "") => fn.out = Bytes(fn.inp)

\* C14: for every address of prefix length 128 and every prefix of a length
\* that is a multiple of 8, parsing the formatted text succeeds and gives the
\* same bytes and the same prefix length.
C14_TextRoundTrip ==
  fn.op = "text"
    => /\ fn.out.exc = ""
       /\ fn.out.add = fn.inp.add
       /\ fn.out.prefix_len = fn.inp.prefix_len

\* C15: for every address a of prefix length 128, the address built from its
\* /64 prefix, its sink field and its node field is a again, of prefix length
\* 128, the sink field at bytes 8..12 and the node field at bytes 12..16,
\* both big-endian.
C15_FieldRoundTrip ==
  fn.op = "fields"
    => LET sk == wirepas_sink_add(fn.inp)
           nd == wirepas_node_add(fn.inp)
           b == fn.out.add
       IN /\ fn.out.exc = "" /\ fn.out.prefix_len = 128
          /\ b = fn.inp.add
          /\ Len(b) = 16
          /\ b[9] * 256 + b[10] = sk[1] /\ b[11] * 256 + b[12] = sk[2]
          /\ b[13] * 256 + b[14] = nd[1] /\ b[15] * 256 + b[16] = nd[2]

\* an address whose fields differ byte by byte, rebuilt from an 8-byte prefix
C15_Witness ==
  /\ fn.op = "fields" /\ Len(fn.mid.add) = 8
  /\ wirepas_sink_add(fn.inp) = U32(2571, 3085)
  /\ wirepas_node_add(fn.inp) = U32(0, 1)
  /\ fn.out = fn.inp


\* the type-66 value of a sink config: its decode, or the reason there is none
HasType66(c) ==
  /\ c.has_data /\ c.app_config_data.tlv
  /\ APP_CONFIG_TLV_TYPE_PREFIX \in DOMAIN c.app_config_data.entries
Type66(c) == c.app_config_data.entries[APP_CONFIG_TLV_TYPE_PREFIX]
\* an attach reporting started has gone through the update of the config
Updated == wev.kind \in AttachKinds /\ wev.started /\ wpc # "idle"
HostPrefix == Slice(nw_prefix.add, 0, 8)

\* C11: the blob an attach writes back holds under TLV type 66 a record with
\* the discovered host prefix; its nonce is (n+1) mod 16 when the previous
\* type-66 value decoded with nonce n, and 0 when the key was missing, the
\* blob was not TLV or the version did not match.
C11_ConfigPublication ==
  (Updated /\ cfg_out.exc = "")
    => /\ HasType66(cfg_out.new_config)
       /\ LET new == from_bytes(Type66(cfg_out.new_config))
              old == from_bytes(Type66(cfg_in))
          IN /\ new.exc = ""
             /\ new.nw_prefix = Ipv6Add(HostPrefix, 64)
             /\ (HasType66(cfg_in) /\ old.exc = "")
                  => new.nonce = (old.nonce + 1) % 16
             /\ (\/ ~HasType66(cfg_in)
                 \/ (Type66(cfg_in) # << >> /\ Type66(cfg_in)[1] \div 16 # 0))
                  => new.nonce = 0

\* a record of nonce 15 has been written back with nonce 0
C11_Witness ==
  /\ Updated /\ cfg_out.exc = "" /\ HasType66(cfg_in)
  /\ from_bytes(Type66(cfg_in)).exc = "" /\ from_bytes(Type66(cfg_in)).nonce = 15
  /\ from_bytes(Type66(cfg_out.new_config)).nonce = 0

\* C12: an attach that finds an empty type-66 value, or one of a version
\* other than 0, does not abort: it writes a fresh record (nonce 0, current
\* prefix) and the sink is in the table.
C12_DecodeFallback ==
  (/\ Updated /\ HasType66(cfg_in)
   /\ (Type66(cfg_in) = << >> \/ Type66(cfg_in)[1] \div 16 # 0))
    => /\ wpc # "raise"
       /\ cfg_out.exc = ""
       /\ from_bytes(Type66(cfg_out.new_config)) =
            IPV6NetworkConfig(0, Ipv6Add(HostPrefix, 64),
                              IF off_mesh = None THEN None
                              ELSE Ipv6Add(off_mesh.add, 128))
       /\ InDic(wev.name)

\* C19: when the config read decodes as a TLV envelope, the blob written
\* back holds every entry of a type other than 66 with its value unchanged,
\* app_config_diag is the value read and app_config_seq is 0.
C19_ReadModifyWrite ==
  (Updated /\ cfg_out.exc = "" /\ cfg_in.has_data /\ cfg_in.app_config_data.tlv)
    => LET old == cfg_in.app_config_data.entries
           new == cfg_out.new_config.app_config_data.entries
       IN /\ cfg_out.new_config.has_data /\ cfg_out.new_config.app_config_data.tlv
          /\ \A t \in DOMAIN old \ {APP_CONFIG_TLV_TYPE_PREFIX} :
               t \in DOMAIN new /\ new[t] = old[t]
          /\ cfg_out.new_config.app_config_diag = cfg_in.app_config_diag
          /\ cfg_out.new_config.app_config_seq = 0

\* an envelope with an entry of another type and a type-66 record was rewritten
C19_Witness ==
  /\ Updated /\ cfg_out.exc = "" /\ HasType66(cfg_in)
  /\ OtherType \in DOMAIN cfg_in.app_config_data.entries
  /\ cfg_in.app_config_diag = 60 /\ cfg_in.app_config_seq = 5
  /\ cfg_out.new_config.app_config_data.entries[OtherType] = <<1, 2>>

\* the literal of --off_mesh_service does not parse
Malformed == arg # NoLiteral /\ from_srting(arg).exc # ""

\* C16: when the off-mesh service literal does not parse, the process exits
\* with status 1 before any startup command ran and before any sink was
\* attached
C16_MalformedOffMesh ==
  (Malformed /\ spc # "main")
    => /\ spc = "exited" /\ exit_code = 1
       /\ slog = << >>
       /\ \A s \in SinkIds : ~InDic(s)
       /\ off_mesh = None
C16_Witness == Malformed /\ spc = "exited" /\ Len(arg.parts) = 1

\* the place of a startup step in the order the specification gives
StepRank(step) ==
  CASE step = "tun_del" -> 1
    [] step = "tun_add" -> 2
    [] step = "link_up" -> 3
    [] step = "open" -> 4
    [] step = "rdisc6" -> 5
    [] step = "route_replace" -> 6
    [] step = "bus_init" -> 7
    [] step = "bus_start" -> 8
    [] step = "attach" -> 9

\* C17: startup goes through its steps in the order given, the event loop
\* being started before the sinks are enumerated and attached; a device left
\* by a prior instance is gone, with what was installed on it, before the
\* new one is created
C17_StartupOrder ==
  /\ \A i, j \in 1..Len(slog) :
       i < j => StepRank(slog[i].step) <= StepRank(slog[j].step)
  /\ (spc \in {"link_up", "open", "rdisc6", "route_replace", "bus_init"})
       => routes = {} /\ addrs = {}


\* the accepted frames of sink s whose call has ended without an exception
Completed(s) ==
  LET InFlight == wpc \in {"rx_cmd", "rx_set", "rx_write"}
      done == IF InFlight THEN SubSeq(delivered, 1, Len(delivered) - 1)
              ELSE delivered
      mine == SelectSeq(done, LAMBDA e : e.name = s /\ ~e.raised)
  IN [i \in 1..Len(mine) |-> TunPacket(mine[i].name, mine[i].data)]

\* C18: for each sink, the packets on the TUN that came in its frames are
\* the payloads of its accepted frames, in the order on_data_received was
\* called with them
C18_InboundOrder ==
  \A s \in SinkIds :
    SelectSeq(written, LAMBDA e : e.name = s) = Completed(s)
\* two frames of one sink with different payloads have been written
C18_Witness ==
  \E s \in SinkIds :
    LET mine == SelectSeq(written, LAMBDA e : e.name = s)
    IN Len(mine) >= 2 /\ mine[1].data # mine[2].data

\* C20: when a route, address or proxy removal fails during the detach of an
\* attached sink, the detach goes on to its end: the callback returns, the
\* listener of the sink is stopped, its route, address and proxy entries
\* are gone and the sink id is no longer in the table
C20_DetachContinues ==
  (wev.kind \in DetachKinds /\ failed /\ wpc \in {"return", "raise"})
    => /\ wpc = "return"
       /\ ~InDic(wev.name)
       /\ ipv6_sink_prefix(NodeAddressOf(wev.name)) \notin routes
       /\ ipv6_interface_address(NodeAddressOf(wev.name)) \notin addrs
       /\ \A o \in ObjIds : objs[o].used => objs[o].name # wev.name

\* C21: an attach (sink_connected or stack_started) of a sink whose
\* read_config reports started false writes no config to the sink, runs no
\* route, address or proxy command, creates no sink object and no listener,
\* leaves the sink table as it was and returns without an error
C21_NotStartedNoEffect ==
  [][(wpc = "idle" /\ wev'.kind \in AttachKinds /\ ~wev'.started)
       => /\ wpc' = "return" /\ ~failed'
          /\ cfg_out' = NoWrite /\ sink_cfg' = sink_cfg
          /\ routes' = routes /\ addrs' = addrs /\ proxies' = proxies
          /\ sink_dic' = sink_dic /\ objs' = objs
    ]_vars
\* a not-started attach of a sink that holds an application config has
\* returned
C21_Witness ==
  /\ wev.kind \in AttachKinds /\ ~wev.started /\ wpc = "return"
  /\ cfg_in.has_data

\* C22: add_ndp_entry for a node already in the cache runs no command and
\* leaves the cache and the installed proxy entries as they were, so that
\* repeated calls leave what one call leaves; for a node not in the cache
\* one command is run, and the node enters the cache only when it succeeded
C22_AddNdpIdempotent ==
  fn.op = "add_ndp" =>
    LET again == add_ndp_entry(fn.out.cache, fn.out.installed, fn.inp.node, FALSE)
    IN /\ fn.inp.node \in fn.inp.cache
            => /\ fn.out.cmds = << >> /\ fn.out.exc = ""
               /\ fn.out.cache = fn.inp.cache
               /\ fn.out.installed = fn.inp.installed
       /\ fn.inp.node \notin fn.inp.cache
            => /\ Len(fn.out.cmds) = 1
               /\ fn.inp.node \in fn.out.cache
                    <=> (fn.out.exc = "" /\ fn.out.cmds[1] \in fn.out.installed)
               /\ fn.out.exc # "" => /\ fn.out.cache = fn.inp.cache
                                    /\ fn.out.installed = fn.inp.installed
       /\ fn.out.exc = ""
            => /\ again.cmds = << >>
               /\ again.cache = fn.out.cache
               /\ again.installed = fn.out.installed
\* a call for a mesh node already in the cache has returned
C22_Witness ==
  /\ fn.op = "add_ndp" /\ fn.inp.node \in fn.inp.cache
  /\ fn.inp.node # BROADCAST /\ fn.out.exc = ""

\* C23: a sink_disconnected or stack_stopped for a sink id that is not in the
\* sink table runs no route, address or proxy command, stops no listener,
\* leaves the table and the object of every sink in it (cache, listener) as
\* they were, and returns without an error
C23_UnknownDetachNoOp ==
  [][(wpc = "idle" /\ wev'.kind \in DetachKinds /\ ~InDic(wev'.name))
       => /\ wpc' = "return" /\ ~failed'
          /\ routes' = routes /\ addrs' = addrs /\ proxies' = proxies
          /\ sink_dic' = sink_dic
          /\ \A o \in DicValues(sink_dic) : objs'[o] = objs[o]
    ]_vars
\* a detach of a sink not in the table has returned while another sink,
\* with a node learnt, is attached
C23_Witness ==
  /\ wev.kind \in DetachKinds /\ wpc = "return" /\ ~InDic(wev.name)
  /\ ipv6_sink_prefix(NodeAddressOf(wev.name)) \notin routes
  /\ \E s \in SinkIds \ {wev.name} :
       /\ InDic(s) /\ objs[sink_dic[s]].running
       /\ objs[sink_dic[s]].neigh_proxy = Nodes

\* the entries of a type-66 value from index on, as from_bytes walks them:
\* "prefix" (S = 0, 9 bytes), "off_mesh" (S = 1, 17 bytes), or "short" for
\* an entry cut before its end
RECURSIVE EntryKinds(_, _)
EntryKinds(bytes, index) ==
  IF index >= Len(bytes) THEN << >>
  ELSE LET s == bytes[index + 1] \div 128
           size == IF s = 0 THEN 9 ELSE 17
       IN IF index + size > Len(bytes) THEN <<"short">>
          ELSE <<IF s = 0 THEN "prefix" ELSE "off_mesh">>
               \o EntryKinds(bytes, index + size)
KindCount(kinds, k) == Len(SelectSeq(kinds, LAMBDA x : x = k))

\* C24: from_bytes returns no record for a value with more than one prefix
\* entry, more than one off-mesh entry, or an entry cut short; a record it
\* returns holds at most one prefix and at most one off-mesh address
C24_DecodeRejects ==
  (fn.op = "config" /\ fn.inp # << >>) =>
    LET kinds == EntryKinds(fn.inp, 1)
    IN /\ (\/ KindCount(kinds, "prefix") > 1
           \/ KindCount(kinds, "off_mesh") > 1
           \/ KindCount(kinds, "short") > 0) => fn.mid.exc # ""
       /\ fn.mid.exc = ""
            => /\ fn.mid.nw_prefix # None => KindCount(kinds, "prefix") >= 1
               /\ fn.mid.off_mesh_service # None => KindCount(kinds, "off_mesh") >= 1

\* C25: when the type-66 record of the sink decodes, the record an attach
\* writes back carries the off-mesh service the sink already stored if the
\* bridge has none configured, and the configured one if it has
C25_OffMeshPreserved ==
  (/\ Updated /\ cfg_out.exc = "" /\ HasType66(cfg_in)
   /\ from_bytes(Type66(cfg_in)).exc = "")
    => LET old == from_bytes(Type66(cfg_in))
           new == from_bytes(Type66(cfg_out.new_config))
       IN /\ new.exc = ""
          /\ new.off_mesh_service =
               IF off_mesh = None THEN old.off_mesh_service ELSE off_mesh
\* a stored off-mesh service was written back by a bridge that has none
C25_Witness ==
  /\ Updated /\ cfg_out.exc = "" /\ HasType66(cfg_in) /\ off_mesh = None
  /\ from_bytes(Type66(cfg_in)).exc = ""
  /\ from_bytes(Type66(cfg_in)).off_mesh_service = Ipv6Add(OffMesh1, 128)
  /\ from_bytes(Type66(cfg_out.new_config)).off_mesh_service = Ipv6Add(OffMesh1, 128)

\* the runs of rdisc6 so far
Rdisc6Runs == Len(SelectSeq(slog, LAMBDA e : e.step = "rdisc6"))

\* C26: _get_external_prefix runs rdisc6 at most 5 times, goes on with the
\* prefix of the first run that succeeds, and fails, ending startup before
\* any route is installed or sink attached, exactly when 5 runs in a row
\* failed
C26_PrefixRetry ==
  /\ Rdisc6Runs <= ATTEMPTS
  /\ spc = "rdisc6" => attempts = ATTEMPTS - Rdisc6Runs /\ attempts > 0
  /\ (spc = "died" /\ slog # << >> /\ slog[Len(slog)].step = "rdisc6")
       => /\ Rdisc6Runs = ATTEMPTS /\ attempts = 0
          /\ routes = {} /\ addrs = {} /\ \A s \in SinkIds : ~InDic(s)
  /\ (spc \in {"route_replace", "bus_init", "enumerate", "running"})
       => Rdisc6Runs >= 1 /\ attempts > 0

\* C27: whenever a sink is in the sink table, node 0xffffffff is in its
\* cache and the proxy entry of that node is installed, from before the
\* route and the address of the sink are added and the listener is started
C27_BroadcastEntry ==
  \A s \in SinkIds :
    InDic(s) =>
      /\ BROADCAST \in objs[sink_dic[s]].neigh_proxy
      /\ NodeAddress(objs[sink_dic[s]].wp_address, BROADCAST) \in proxies

\* C28: a listener that is running handles every datagram by having the
\* node of its source address in the cache and waiting for the next one; it
\* leaves its loop only after stop() has cleared running
C28_ListenerLearning ==
  \A o \in ObjIds :
    (objs[o].used /\ objs[o].lpc \in {"dead", "exited"}) => ~objs[o].running


\* C29: an attach with the stack started, arriving for a sink that is in the
\* sink table, returns normally and leaves the table entry, the sink object
\* with its listener and cache, the routes, the TUN addresses and the proxy
\* entries as they were
C29_ReattachRefreshOnly ==
  [][(/\ wpc = "idle"
      /\ wev'.kind \in AttachKinds
      /\ wev'.started
      /\ InDic(wev'.name))
     => (/\ sink_dic' = sink_dic
         /\ objs' = objs
         /\ routes' = routes
         /\ addrs' = addrs
         /\ proxies' = proxies
         /\ wpc' = "return")]_vars


\* C30: every send_data of the outbound loop carries a packet that holds a
\* whole destination address, and the sink it goes through and its dst_node
\* argument are the sink and node fields of that address
C30_CurrentPacketOnly ==
  sent # NoSend =>
    LET dst == Ipv6Add(Slice(sent.data, 24, 40), 128)
    IN /\ sent.data = packet
       /\ dst.exc = ""
       /\ sent.dst_node = wirepas_node_add(dst)
       /\ NodeAddressOf(sent.obj_name) = wirepas_sink_add(dst)


\* C31: whenever no lifecycle callback is in progress, a sink is in the sink
\* table exactly if its /96 route and its host address are on the TUN and
\* its listener thread has been started, whatever the OS commands returned
C31_TableAgreesWithOs ==
  wpc = "idle" =>
    \A s \in SinkIds :
      LET wp == NodeAddressOf(s)
      IN IF InDic(s)
         THEN /\ ipv6_sink_prefix(wp) \in routes
              /\ ipv6_interface_address(wp) \in addrs
              /\ objs[sink_dic[s]].lpc # "none"
         ELSE /\ ipv6_sink_prefix(wp) \notin routes
              /\ ipv6_interface_address(wp) \notin addrs

====
